---- MODULE Spec2Model ----
(***************************************************************************)
(* Model of the loomra data layer (src-tauri): the SQLite store with its   *)
(* tables and constraints (database.rs), the goal / task / habit /         *)
(* completion commands, and the export / import pipeline (settings.rs).    *)
(* Every command is one action; a command that runs inside a rusqlite      *)
(* transaction is computed statement by statement on a working copy of the *)
(* store, and the transaction's outcome decides what becomes the store.    *)
(* SpecConc runs export_all_data, delete_goal and import_all_data one      *)
(* statement at a time next to commands on other connections; SpecStreak   *)
(* applies get_habit_streak to stored completion histories.                *)
(***************************************************************************)
EXTENDS Integers, Sequences, FiniteSets, TLC

VARIABLES
    db,         \* the committed content of the database file
    fkDefault,  \* foreign_keys default of the SQLite build (unconfigured connections)
    last,       \* the most recent command: arguments, result, store before it
    nops,       \* number of commands executed so far
    deletedGoals, \* ids of the goals rows that a commit has removed so far
    inflight    \* the commands that are between two of their statements

vars == <<db, fkDefault, last, nops, deletedGoals, inflight>>

(***************************************************************************)
(* Bounds of the model.                                                    *)
(***************************************************************************)
MaxOps == 3
MaxConns == 2
MaxDay == 4
MaxExports == 3

(***************************************************************************)
(* Value universes.                                                        *)
(***************************************************************************)
NULL == "NULL"
GoalIds == {"g1", "g2"}
TaskIds == {"t1", "t2"}
HabitIds == {"h1", "h2"}
CompletionIds == {"c1", "c2"}
\* dates as day numbers: consecutive calendar days are consecutive integers
Dates == 1..MaxDay
Conns == 1..MaxConns

\* database.rs:66-70: the one connection init_database configures
ConfiguredConn == 1

\* database.rs:59-70,80: PRAGMA foreign_keys = ON is applied to the connection
\* taken during init only; every other pooled connection keeps the build default
ForeignKeysOn(c) == (c = ConfiguredConn) \/ fkDefault

(***************************************************************************)
(* serde_json conversions of Habit.linked_goals (habits.rs:59,77-80).      *)
(* The column is TEXT: either the JSON of a Vec<String> or any other text. *)
(***************************************************************************)
to_string(list) == [json |-> TRUE, items |-> list]
NotJson == [json |-> FALSE, items |-> <<>>]
from_str(text) == [ok |-> text.json, val |-> text.items]
\* Habit::from_row: unwrap_or_default
LinkedGoalsOf(h) == IF from_str(h.linked_goals).ok THEN from_str(h.linked_goals).val ELSE <<>>

Contains(list, x) == \E i \in 1..Len(list) : list[i] = x
\* a removal that drops the first occurrence only
RemoveFirst(list, x) ==
    IF ~Contains(list, x) THEN list
    ELSE LET k == CHOOSE i \in 1..Len(list) : list[i] = x /\ \A j \in 1..(i - 1) : list[j] # x
         IN SubSeq(list, 1, k - 1) \o SubSeq(list, k + 1, Len(list))
\* goals.rs:184: Vec::retain(|g| g != goal_id)
Retain(list, x) == SelectSeq(list, LAMBDA g : g # x)

(***************************************************************************)
(* Settings: the rows of the settings table; data is the serialized        *)
(* AppSettings (database.rs:216-223).                                      *)
(***************************************************************************)
NoRow == {}
SettingsRow(s) == [id |-> 1, appearance |-> s.appearance, habits |-> s.habits]
SettingsInputs == { [appearance |-> "light", habits |-> "p1"],
                    [appearance |-> "dark", habits |-> "p2"] }

EmptyDb == [goals |-> {}, tasks |-> {}, habits |-> {},
            habit_completions |-> {}, settings |-> NoRow,
            notification_schedules |-> {}, notification_history |-> {}]

Ids(rows) == {r.id : r \in rows}

(***************************************************************************)
(* SQL statements on a store s under a connection whose foreign-key        *)
(* enforcement is fk.  Each returns [ok, db]: a failed statement leaves    *)
(* the store as it was.                                                    *)
(***************************************************************************)
Ok(s) == [ok |-> TRUE, db |-> s]
Fail(s) == [ok |-> FALSE, db |-> s]

\* ON DELETE CASCADE along tasks.parent_task_id (database.rs:130)
RECURSIVE CascadeTasks(_, _)
CascadeTasks(tasks, dead) ==
    LET more == {t \in tasks \ dead : t.parent_task_id \in Ids(dead)}
    IN IF more = {} THEN dead ELSE CascadeTasks(tasks, dead \cup more)

\* DELETE FROM tasks WHERE <victims>
SqlDeleteTasks(s, fk, victims) ==
    [s EXCEPT !.tasks = IF fk THEN s.tasks \ CascadeTasks(s.tasks, victims)
                               ELSE s.tasks \ victims]

\* an UPDATE that reaches the tasks only after their goal row is gone: it
\* changes no row
SqlNullifyTooLate(s, id) == s
\* UPDATE tasks SET goal_id = NULL WHERE goal_id = id
SqlNullifyTasks(s, id) ==
    [s EXCEPT !.tasks = {IF t.goal_id = id THEN [t EXCEPT !.goal_id = NULL] ELSE t
                          : t \in s.tasks}]

\* DELETE FROM goals WHERE <victims>; ON DELETE CASCADE on tasks.goal_id (database.rs:129)
SqlDeleteGoals(s, fk, victims) ==
    LET s1 == [s EXCEPT !.goals = s.goals \ victims]
    IN IF fk THEN SqlDeleteTasks(s1, fk, {t \in s.tasks : t.goal_id \in Ids(victims)})
             ELSE s1

\* DELETE FROM habits WHERE <victims>; ON DELETE CASCADE on habit_completions.habit_id
\* (database.rs:175), notification_schedules.habit_id (193) and
\* notification_history.habit_id (210)
SqlDeleteHabits(s, fk, victims) ==
    LET s1 == [s EXCEPT !.habits = s.habits \ victims]
    IN IF fk THEN [s1 EXCEPT !.habit_completions =
                       {c \in s.habit_completions : c.habit_id \notin Ids(victims)},
                             !.notification_schedules =
                       {n \in s.notification_schedules : n.habit_id \notin Ids(victims)},
                             !.notification_history =
                       {n \in s.notification_history : n.habit_id \notin Ids(victims)}]
             ELSE s1

\* INSERT OR REPLACE INTO notification_schedules: UNIQUE(habit_id, scheduled_time),
\* foreign key on habit_id when enforced (database.rs:183-195); the row is
\* written without its AUTOINCREMENT id
SqlReplaceSchedule(s, fk, row) ==
    IF fk /\ row.habit_id \notin Ids(s.habits) THEN Fail(s)
    ELSE Ok([s EXCEPT !.notification_schedules =
                {n \in @ : ~(n.habit_id = row.habit_id
                              /\ n.scheduled_time = row.scheduled_time)} \cup {row}])

\* INSERT INTO notification_history: PRIMARY KEY, foreign key on habit_id when
\* enforced (database.rs:201-211)
SqlInsertHistory(s, fk, row) ==
    IF \/ row.id \in Ids(s.notification_history)
       \/ fk /\ row.habit_id \notin Ids(s.habits)
    THEN Fail(s)
    ELSE Ok([s EXCEPT !.notification_history = @ \cup {row}])

\* INSERT INTO goals: id is the PRIMARY KEY (database.rs:101)
SqlInsertGoal(s, row) ==
    IF row.id \in Ids(s.goals) THEN Fail(s)
    ELSE Ok([s EXCEPT !.goals = s.goals \cup {row}])

\* INSERT INTO tasks: PRIMARY KEY, updated_at NOT NULL without default, the two
\* foreign keys when enforced (database.rs:119-131)
SqlInsertTask(s, fk, row) ==
    IF \/ row.id \in Ids(s.tasks)
       \/ row.updated_at = NULL
       \/ fk /\ row.goal_id # NULL /\ row.goal_id \notin Ids(s.goals)
       \/ fk /\ row.parent_task_id # NULL
             /\ row.parent_task_id \notin (Ids(s.tasks) \cup {row.id})
    THEN Fail(s)
    ELSE Ok([s EXCEPT !.tasks = s.tasks \cup {row}])

\* INSERT INTO habits: id is the PRIMARY KEY (database.rs:138)
SqlInsertHabit(s, row) ==
    IF row.id \in Ids(s.habits) THEN Fail(s)
    ELSE Ok([s EXCEPT !.habits = s.habits \cup {row}])

\* INSERT INTO habit_completions: PRIMARY KEY, UNIQUE(habit_id, date), foreign key
\* on habit_id when enforced (database.rs:161-177)
SqlInsertCompletion(s, fk, row) ==
    IF \/ row.id \in Ids(s.habit_completions)
       \/ \E c \in s.habit_completions : c.habit_id = row.habit_id /\ c.date = row.date
       \/ fk /\ row.habit_id \notin Ids(s.habits)
    THEN Fail(s)
    ELSE Ok([s EXCEPT !.habit_completions = s.habit_completions \cup {row}])

\* an INSERT that knows no conflict target
SqlAppendCompletion(s, fk, row) ==
    Ok([s EXCEPT !.habit_completions = s.habit_completions \cup {row}])
\* INSERT ... ON CONFLICT(habit_id, date) DO UPDATE (habit_completions.rs:52-67):
\* a row for the same habit and date keeps its id and takes the new values
SqlUpsertCompletion(s, fk, row) ==
    LET same == {c \in s.habit_completions :
                    c.habit_id = row.habit_id /\ c.date = row.date}
    IN IF same # {}
       THEN Ok([s EXCEPT !.habit_completions =
                   {IF c \in same THEN [c EXCEPT !.completed = row.completed] ELSE c
                      : c \in s.habit_completions}])
       ELSE SqlInsertCompletion(s, fk, row)

\* an INSERT that adds a row under the next free id
SaveAppend(s, settings) ==
    [s EXCEPT !.settings = s.settings \cup
         {[SettingsRow(settings) EXCEPT !.id = Cardinality(s.settings) + 1]}]
\* INSERT INTO settings (id = 1) ON CONFLICT(id) DO UPDATE (settings.rs:150-165)
save_settings_to_db_impl(s, settings) ==
    [s EXCEPT !.settings = {r \in s.settings : r.id # 1} \cup {SettingsRow(settings)}]


(***************************************************************************)
(* Inputs of the commands.                                                 *)
(***************************************************************************)
GoalInputs == {[id |-> g] : g \in GoalIds}
Task(i, g, p) == [id |-> i, goal_id |-> g, parent_task_id |-> p, updated_at |-> "u1"]
TaskInputs == {Task("t1", "g1", NULL), Task("t1", NULL, NULL), Task("t2", "g1", NULL),
               Task("t2", NULL, "t1"), Task("t2", "g2", "t1")}
Habit(h, l) == [id |-> h, linked_goals |-> l]
HabitInputs == {Habit("h1", <<"g1">>), Habit("h1", <<"g1", "g2", "g1">>),
                Habit("h2", <<>>), Habit("h2", <<"g2">>)}
Completion(c, h, d, b) == [id |-> c, habit_id |-> h, date |-> d, completed |-> b]
CompletionInputs == {Completion("c1", "h1", 1, TRUE), Completion("c2", "h1", 1, FALSE),
                     Completion("c2", "h1", 2, TRUE), Completion("c1", "h2", 1, TRUE)}
\* delete_strategy: Option<String>; NULL stands for None
StrategyInputs == {"cascade", "nullify", "CASCADE", NULL}

(***************************************************************************)
(* The export document (settings.rs:64-144).  missing names the required   *)
(* sections that the JSON text lacks.                                      *)
(***************************************************************************)
Sections == {"settings", "goals", "tasks", "habits", "habit_completions", "export_metadata"}
NoSettings == [appearance |-> "-", habits |-> "-"]
NoDoc == [missing |-> {}, settings |-> NoSettings, goals |-> <<>>, tasks |-> <<>>,
          habits |-> <<>>, habit_completions |-> <<>>, total_records |-> 0]

\* no HabitCompletion record
NoCompletion == Completion(NULL, NULL, 0, FALSE)

(***************************************************************************)
(* The record kept of the most recent command.                             *)
(***************************************************************************)
NoCommand == [op |-> "init", id |-> NULL, strategy |-> NULL, doc |-> NoDoc, fk |-> TRUE,
              fault |-> "none",
              ok |-> TRUE, ret |-> "-", n |-> 0, err |-> "-", out |-> NoDoc,
              returned |-> NoCompletion, pre |-> EmptyDb, stmts |-> <<>>]

(***************************************************************************)
(* Commands in flight.  ex is an export_all_data between two of its reads: *)
(* the document read so far and every committed store since it began.  tx  *)
(* is a rusqlite transaction between two of its statements: the snapshot   *)
(* it started from (base), its uncommitted working copy (work), whether it *)
(* holds the database write lock, and whether another connection has       *)
(* committed since its snapshot was taken (stale).                         *)
(***************************************************************************)
NoExport == [pc |-> "idle", doc |-> NoDoc, seen |-> {}]
NoTx == [pc |-> "idle", op |-> "-", id |-> NULL, strategy |-> NULL, doc |-> NoDoc,
         fk |-> TRUE, base |-> EmptyDb, work |-> EmptyDb, wlock |-> FALSE,
         stale |-> FALSE, stmts |-> <<>>]
\* pool: where each export_all_data call stands with the connection pool;
\* upd: the partial settings updates between their load and their save
Exporters == 1..MaxExports
Updaters == {"u1", "u2"}
NoUpdate == [pc |-> "idle", section |-> "-", settings |-> NoSettings,
             seen |-> [appearance |-> NULL, habits |-> NULL]]
Idle == [ex |-> NoExport, tx |-> NoTx, pool |-> [w \in Exporters |-> "idle"],
         upd |-> [u \in Updaters |-> NoUpdate]]

ExportRunning(fl) == fl.ex.pc \notin {"idle", "done"}

\* what a commit that turns the store from s into t means to the commands in flight
Observe(fl, s, t) ==
    [fl EXCEPT !.ex.seen = IF ExportRunning(fl) THEN @ \cup {t} ELSE @,
               !.tx.stale = @ \/ (fl.tx.pc # "idle" /\ t # s)]

\* SQLite admits one writer: a statement that writes waits while a transaction
\* on another connection holds the write lock
WriteLockFree == ~inflight.tx.wlock

Init ==
    /\ db = EmptyDb
    /\ fkDefault \in BOOLEAN
    /\ last = NoCommand
    /\ nops = 0
    /\ deletedGoals = {}
    /\ inflight = Idle

\* what a command that runs to its end in one step leaves of the other variables
Frame ==
    /\ deletedGoals' = deletedGoals \cup (Ids(db.goals) \ Ids(db'.goals))
    /\ inflight' = Observe(inflight, db, db')
    /\ UNCHANGED fkDefault

\* a command that executes one statement in autocommit mode
Single(op, id, fk, r, errmsg) ==
    /\ WriteLockFree
    /\ db' = r.db
    /\ last' = [NoCommand EXCEPT !.op = op, !.id = id, !.fk = fk, !.ok = r.ok,
                                 !.ret = IF r.ok THEN "ok" ELSE "-",
                                 !.err = IF r.ok THEN "-" ELSE errmsg,
                                 !.pre = db, !.stmts = <<op>>]
    /\ nops' = nops + 1
    /\ Frame

\* goals.rs:49-80
create_goal(c, goal) ==
    /\ nops < MaxOps
    /\ Single("create_goal", goal.id, ForeignKeysOn(c), SqlInsertGoal(db, goal),
              "Failed to create goal")

\* tasks.rs:35-61
create_task(c, task) ==
    /\ nops < MaxOps
    /\ Single("create_task", task.id, ForeignKeysOn(c),
              SqlInsertTask(db, ForeignKeysOn(c), task), "Failed to create task")

\* habits.rs:83-122
create_habit(c, habit) ==
    /\ nops < MaxOps
    /\ Single("create_habit", habit.id, ForeignKeysOn(c),
              SqlInsertHabit(db, [id |-> habit.id,
                                  linked_goals |-> to_string(habit.linked_goals)]),
              "Failed to create habit")

\* habit_completions.rs:44-87
\* an argument record is handed back on success (line 86: Ok(completion))
create_habit_completion(c, completion) ==
    /\ nops < MaxOps
    /\ WriteLockFree
    /\ LET r == SqlUpsertCompletion(db, ForeignKeysOn(c), completion)
       IN /\ db' = r.db
          /\ last' = [NoCommand EXCEPT !.op = "create_habit_completion",
                         !.id = completion.id, !.fk = ForeignKeysOn(c), !.ok = r.ok,
                         !.ret = IF r.ok THEN "ok" ELSE "-",
                         !.err = IF r.ok THEN "-" ELSE "Failed to create habit completion",
                         !.returned = IF r.ok THEN completion ELSE NoCompletion,
                         !.pre = db, !.stmts = <<"create_habit_completion">>]
    /\ nops' = nops + 1
    /\ Frame

\* settings.rs:417-427
save_settings(c, settings) ==
    /\ nops < MaxOps
    /\ Single("save_settings", NULL, ForeignKeysOn(c),
              Ok(save_settings_to_db_impl(db, settings)), "Failed to save settings")

(***************************************************************************)
(* delete_habit (habits.rs:169-182): one DELETE; the completions go only   *)
(* through the store's ON DELETE CASCADE.                                  *)
(***************************************************************************)
delete_habit(c, id) ==
    /\ nops < MaxOps
    /\ WriteLockFree
    /\ db' = SqlDeleteHabits(db, ForeignKeysOn(c), {h \in db.habits : h.id = id})
    /\ last' = [NoCommand EXCEPT !.op = "delete_habit", !.id = id, !.fk = ForeignKeysOn(c),
                   !.ret = IF id \in Ids(db.habits) THEN "true" ELSE "false",
                   !.pre = db, !.stmts = <<"DELETE habits">>]
    /\ nops' = nops + 1
    /\ Frame

(***************************************************************************)
(* delete_goal (goals.rs:119-198).                                         *)
(***************************************************************************)
\* a match that ignores the case of the argument
ParseStrategyAnyCase(arg) == IF arg \in {"cascade", "CASCADE"} THEN "Cascade" ELSE "Nullify"
\* goals.rs:129-132
ParseStrategy(arg) == IF arg = "cascade" THEN "Cascade" ELSE "Nullify"

\* a cleanup that rewrites every habit row
RewriteAll(h, goal_id) == TRUE
\* goals.rs:165-198: rewrite every habit whose parsed list contains goal_id
NeedsRewrite(h, goal_id) ==
    from_str(h.linked_goals).ok /\ Contains(from_str(h.linked_goals).val, goal_id)

update_habit_linked_goals_tx(s, goal_id) ==
    [s EXCEPT !.habits =
        {IF NeedsRewrite(h, goal_id)
           THEN [h EXCEPT !.linked_goals =
                            to_string(Retain(from_str(h.linked_goals).val, goal_id))]
           ELSE h
         : h \in s.habits}]

\* a dispatch that takes the Cascade arm whatever the strategy
ResolveTasksAlwaysDelete(s, fk, id, strategy) ==
    SqlDeleteTasks(s, fk, {t \in s.tasks : t.goal_id = id})
\* goals.rs:142-151
ResolveTasks(s, fk, id, strategy) ==
    IF strategy = "Cascade"
    THEN SqlDeleteTasks(s, fk, {t \in s.tasks : t.goal_id = id})
    ELSE SqlNullifyTasks(s, id)

\* a transaction whose partial work survives the early return
DeleteGoalNoRollback(before, work, committed) == work
\* goals.rs:135,158: the rusqlite transaction commits on tx.commit() and rolls
\* back when it is dropped on an early return
DeleteGoalTxOutcome(before, work, committed) == IF committed THEN work ELSE before

Rep(tag, n) == [i \in 1..n |-> tag]

DeleteGoalFaults == {"none", "habits", "tasks", "goal", "commit"}

\* the handler: [ok, ret, err, db, stmts]
delete_goal_run(s, fk, id, delete_strategy, fault) ==
    LET strategy == ParseStrategy(delete_strategy)
        s1 == update_habit_linked_goals_tx(s, id)
        s2 == ResolveTasks(s1, fk, id, strategy)
        s3 == SqlDeleteGoals(s2, fk, {g \in s2.goals : g.id = id})
        rows_affected == Cardinality({g \in s2.goals : g.id = id})
        t1 == <<"SELECT habits">>
        t2 == t1 \o Rep("UPDATE habits",
                        Cardinality({h \in s.habits : NeedsRewrite(h, id)}))
        t3 == t2 \o <<IF strategy = "Cascade" THEN "DELETE tasks" ELSE "UPDATE tasks">>
        t4 == t3 \o <<"DELETE goals">>
        t5 == t4 \o <<"COMMIT">>
        Err(msg, work, tr) == [ok |-> FALSE, ret |-> "-", err |-> msg,
                               db |-> DeleteGoalTxOutcome(s, work, FALSE), stmts |-> tr]
    IN CASE fault = "habits" -> Err("Failed to query habits", s, t1)
         [] fault = "tasks" -> Err("Failed to resolve associated tasks", s1, t3)
         [] fault = "goal" -> Err("Failed to delete goal", s2, t4)
         [] fault = "commit" -> Err("Failed to commit transaction", s3, t5)
         [] OTHER -> [ok |-> TRUE, ret |-> IF rows_affected > 0 THEN "true" ELSE "false",
                      err |-> "-", db |-> DeleteGoalTxOutcome(s, s3, TRUE), stmts |-> t5]

delete_goal(c, id, delete_strategy, fault) ==
    /\ nops < MaxOps
    /\ WriteLockFree
    /\ LET r == delete_goal_run(db, ForeignKeysOn(c), id, delete_strategy, fault)
       IN /\ db' = r.db
          /\ last' = [NoCommand EXCEPT !.op = "delete_goal", !.id = id,
                         !.strategy = delete_strategy, !.fk = ForeignKeysOn(c),
                         !.fault = fault,
                         !.ok = r.ok, !.ret = r.ret, !.err = r.err,
                         !.pre = db, !.stmts = r.stmts]
    /\ nops' = nops + 1
    /\ Frame

(***************************************************************************)
(* export_all_data (settings.rs:194-310, 536-569).                         *)
(***************************************************************************)
\* SELECT without ORDER BY: the rows in some fixed order
RECURSIVE RowsOf(_)
RowsOf(rows) ==
    IF rows = {} THEN <<>>
    ELSE LET r == CHOOSE x \in rows : TRUE IN <<r>> \o RowsOf(rows \ {r})

Map(seq, F(_)) == [i \in 1..Len(seq) |-> F(seq[i])]

\* settings.rs:75-88, 194-221
GoalDataOf(row) == [id |-> row.id]
\* settings.rs:90-99, 223-244: TaskData has neither parent_task_id nor updated_at
TaskDataOf(row) == [id |-> row.id, goal_id |-> row.goal_id]
\* settings.rs:101-120, 246-279: linked_goals travels as the stored text
HabitDataOf(row) == [id |-> row.id, linked_goals |-> row.linked_goals]
\* settings.rs:122-137, 281-310
CompletionDataOf(row) == [id |-> row.id, habit_id |-> row.habit_id, date |-> row.date,
                          completed |-> row.completed]

\* settings.rs:167-188: Ok(None) when the settings table has no row
load_settings_from_db(s) ==
    LET rows == {r \in s.settings : r.id = 1}
    IN IF rows # {}
       THEN LET r == CHOOSE x \in rows : TRUE
            IN [some |-> TRUE, val |-> [appearance |-> r.appearance, habits |-> r.habits]]
       ELSE [some |-> FALSE, val |-> NoSettings]

\* an export that goes on without the settings row
SettingsOptional(loaded) == TRUE
\* settings.rs:543-544: ok_or_else(|| "Settings not initialized")
RequireSettings(loaded) == loaded.some

\* the handler: [ok, err, out]
export_all_data_run(s) ==
    LET loaded == load_settings_from_db(s)
        goals == Map(RowsOf(s.goals), GoalDataOf)
        tasks == Map(RowsOf(s.tasks), TaskDataOf)
        habits == Map(RowsOf(s.habits), HabitDataOf)
        habit_completions == Map(RowsOf(s.habit_completions), CompletionDataOf)
    IN IF ~RequireSettings(loaded)
       THEN [ok |-> FALSE, err |-> "Settings not initialized", out |-> NoDoc]
       ELSE [ok |-> TRUE, err |-> "-",
             out |-> [missing |-> {}, settings |-> loaded.val, goals |-> goals,
                      tasks |-> tasks, habits |-> habits,
                      habit_completions |-> habit_completions,
                      total_records |-> Len(goals) + Len(tasks) + Len(habits)
                                          + Len(habit_completions)]]

export_all_data(c) ==
    /\ nops < MaxOps
    /\ LET r == export_all_data_run(db)
       IN last' = [NoCommand EXCEPT !.op = "export_all_data", !.fk = ForeignKeysOn(c),
                      !.ok = r.ok, !.ret = IF r.ok THEN "document" ELSE "-",
                      !.err = r.err, !.out = r.out, !.pre = db,
                      !.stmts = <<"SELECT settings">> \o
                                (IF r.ok THEN <<"SELECT goals", "SELECT tasks", "SELECT habits",
                                                "SELECT habit_completions">>
                                         ELSE <<>>)]
    /\ nops' = nops + 1
    /\ UNCHANGED db
    /\ Frame

(***************************************************************************)
(* import_all_data (settings.rs:316-404, 571-621).                         *)
(***************************************************************************)
\* a parser that fills a lacking section with its default
ParseLenient(doc) == TRUE
\* settings.rs:581-582: serde rejects a text that lacks a required field
ParseExportData(doc) == doc.missing = {}

\* the running state of a sequence of INSERTs: [ok, db, n] with n statements run
RECURSIVE InsertGoals(_, _)
InsertGoals(st, rows) ==
    IF ~st.ok \/ rows = <<>> THEN st
    ELSE LET r == SqlInsertGoal(st.db, [id |-> Head(rows).id])
         IN InsertGoals([ok |-> r.ok, db |-> r.db, n |-> st.n + 1], Tail(rows))

\* settings.rs:340-356: the INSERT names seven columns; parent_task_id and
\* updated_at are not among them and take the column default, NULL
ImportedTaskRow(t) == [id |-> t.id, goal_id |-> t.goal_id, parent_task_id |-> NULL,
                       updated_at |-> NULL]

RECURSIVE InsertTasks(_, _, _)
InsertTasks(st, fk, rows) ==
    IF ~st.ok \/ rows = <<>> THEN st
    ELSE LET r == SqlInsertTask(st.db, fk, ImportedTaskRow(Head(rows)))
         IN InsertTasks([ok |-> r.ok, db |-> r.db, n |-> st.n + 1], fk, Tail(rows))

RECURSIVE InsertHabits(_, _)
InsertHabits(st, rows) ==
    IF ~st.ok \/ rows = <<>> THEN st
    ELSE LET r == SqlInsertHabit(st.db, [id |-> Head(rows).id,
                                         linked_goals |-> Head(rows).linked_goals])
         IN InsertHabits([ok |-> r.ok, db |-> r.db, n |-> st.n + 1], Tail(rows))

RECURSIVE InsertCompletions(_, _, _)
InsertCompletions(st, fk, rows) ==
    IF ~st.ok \/ rows = <<>> THEN st
    ELSE LET r == SqlInsertCompletion(st.db, fk, Head(rows))
         IN InsertCompletions([ok |-> r.ok, db |-> r.db, n |-> st.n + 1], fk, Tail(rows))

\* an import that merges: nothing is cleared first
KeepGoals(s, fk) == s
\* settings.rs:318-321
ClearGoals(s, fk) == SqlDeleteGoals(SqlDeleteTasks(s, fk, s.tasks), fk, s.goals)
\* a goals step that clears the two tables and leaves the inserting to a later step
import_goals_clear_only(s, fk, goals) ==
    [ok |-> TRUE, db |-> ClearGoals(s, fk), stmts |-> <<"DELETE tasks", "DELETE goals">>]
\* settings.rs:316-338
import_goals_data(s, fk, goals) ==
    LET r == InsertGoals([ok |-> TRUE, db |-> ClearGoals(s, fk), n |-> 0], goals)
    IN [ok |-> r.ok, db |-> r.db,
        stmts |-> <<"DELETE tasks", "DELETE goals">> \o Rep("INSERT goals", r.n)]

\* settings.rs:340-356
import_tasks_data(s, fk, tasks) ==
    LET r == InsertTasks([ok |-> TRUE, db |-> s, n |-> 0], fk, tasks)
    IN [ok |-> r.ok, db |-> r.db, stmts |-> Rep("INSERT tasks", r.n)]

\* settings.rs:358-383
ClearHabits(s, fk) ==
    SqlDeleteHabits([s EXCEPT !.habit_completions = {}], fk, s.habits)
import_habits_data(s, fk, habits) ==
    LET r == InsertHabits([ok |-> TRUE, db |-> ClearHabits(s, fk), n |-> 0], habits)
    IN [ok |-> r.ok, db |-> r.db,
        stmts |-> <<"DELETE habit_completions", "DELETE habits">>
                    \o Rep("INSERT habits", r.n)]

\* settings.rs:385-404
import_habit_completions_data(s, fk, completions) ==
    LET r == InsertCompletions([ok |-> TRUE, db |-> s, n |-> 0], fk, completions)
    IN [ok |-> r.ok, db |-> r.db, stmts |-> Rep("INSERT habit_completions", r.n)]

\* a transaction whose partial work survives the early return
ImportNoRollback(before, work, committed) == work
\* settings.rs:585,611: commit on tx.commit(), rollback when the transaction is
\* dropped by an early return
ImportTxOutcome(before, work, committed) == IF committed THEN work ELSE before

ImportFaults == {"none", "habits", "settings", "commit"}

\* the handler: [ok, err, db, stmts]; fault names a step that the storage fails
import_all_data_run(s, fk, doc, fault) ==
    LET g == import_goals_data(s, fk, doc.goals)
        t == import_tasks_data(g.db, fk, doc.tasks)
        h == import_habits_data(t.db, fk, doc.habits)
        c == import_habit_completions_data(h.db, fk, doc.habit_completions)
        w == save_settings_to_db_impl(c.db, doc.settings)
        tg == g.stmts
        tt == tg \o t.stmts
        th == tt \o h.stmts
        tc == th \o c.stmts
        tw == tc \o <<"UPSERT settings">>
        Err(msg, work, tr) == [ok |-> FALSE, err |-> msg,
                               db |-> ImportTxOutcome(s, work, FALSE), stmts |-> tr]
    IN CASE ~ParseExportData(doc) -> [ok |-> FALSE, err |-> "Failed to parse import data",
                                      db |-> s, stmts |-> <<>>]
         [] ParseExportData(doc) /\ ~g.ok -> Err("Failed to insert goal", g.db, tg)
         [] ParseExportData(doc) /\ g.ok /\ ~t.ok -> Err("Failed to insert task", t.db, tt)
         [] ParseExportData(doc) /\ g.ok /\ t.ok /\ fault = "habits" ->
               Err("Failed to clear habit completions", t.db, tt \o <<"DELETE habit_completions">>)
         [] ParseExportData(doc) /\ g.ok /\ t.ok /\ fault # "habits" /\ ~h.ok ->
               Err("Failed to insert habit", h.db, th)
         [] ParseExportData(doc) /\ g.ok /\ t.ok /\ fault # "habits" /\ h.ok /\ ~c.ok ->
               Err("Failed to insert habit completion", c.db, tc)
         [] ParseExportData(doc) /\ g.ok /\ t.ok /\ fault = "settings" /\ h.ok /\ c.ok ->
               Err("Failed to save settings", c.db, tw)
         [] ParseExportData(doc) /\ g.ok /\ t.ok /\ fault = "commit" /\ h.ok /\ c.ok ->
               Err("Failed to commit transaction", w, tw \o <<"COMMIT">>)
         [] OTHER -> [ok |-> TRUE, err |-> "-", db |-> ImportTxOutcome(s, w, TRUE),
                      stmts |-> tw \o <<"COMMIT">>]

\* documents handed to import_all_data
DocA == [missing |-> {}, settings |-> [appearance |-> "dark", habits |-> "p2"],
         goals |-> <<[id |-> "g1"], [id |-> "g2"]>>, tasks |-> <<>>,
         habits |-> <<[id |-> "h1", linked_goals |-> to_string(<<"g1", "g2", "g1">>)],
                      [id |-> "h2", linked_goals |-> NotJson]>>,
         habit_completions |-> <<Completion("c1", "h1", 1, TRUE)>>,
         total_records |-> 5]
DocDup == [DocA EXCEPT !.habit_completions = <<Completion("c1", "h1", 1, TRUE),
                                                Completion("c2", "h1", 1, FALSE)>>,
                       !.total_records = 6]
DocTask == [missing |-> {}, settings |-> [appearance |-> "light", habits |-> "p1"],
            goals |-> <<[id |-> "g1"]>>, tasks |-> <<[id |-> "t1", goal_id |-> "g1"]>>,
            habits |-> <<>>, habit_completions |-> <<>>, total_records |-> 2]
DocNoMetadata == [DocA EXCEPT !.missing = {"export_metadata"}]
DocNotJson == [NoDoc EXCEPT !.missing = Sections]
\* documents with a reference to a record that the document does not hold
DocOrphanTask == [DocTask EXCEPT !.goals = <<>>, !.total_records = 1]
DocOrphanCompletion == [DocA EXCEPT !.habits = <<[id |-> "h2", linked_goals |-> NotJson]>>,
                                    !.total_records = 4]
OrphanDocs == {DocOrphanTask, DocOrphanCompletion}
FixedDocs == {DocA, DocDup, DocTask, DocNoMetadata, DocNotJson}

\* the text a client can hand in: a fixed document or the export of the store as it is
ImportDocs ==
    FixedDocs \cup (IF export_all_data_run(db).ok THEN {export_all_data_run(db).out} ELSE {})

\* settings.rs:572-621: the command, handed the text of doc
import_all_data_doc(c, doc, fault) ==
    /\ nops < MaxOps
    /\ WriteLockFree
    /\ LET r == import_all_data_run(db, ForeignKeysOn(c), doc, fault)
       IN /\ db' = r.db
          /\ last' = [NoCommand EXCEPT !.op = "import_all_data", !.doc = doc,
                         !.fk = ForeignKeysOn(c), !.fault = fault, !.ok = r.ok,
                         !.ret = IF r.ok THEN "summary" ELSE "-", !.err = r.err,
                         !.pre = db, !.stmts = r.stmts]
    /\ nops' = nops + 1
    /\ Frame

import_all_data(c, fault) ==
    /\ nops < MaxOps
    /\ \E doc \in ImportDocs : import_all_data_doc(c, doc, fault)

\* imports of documents with and without dangling references
NextImport ==
    \/ \E c \in Conns, goal \in GoalInputs : create_goal(c, goal)
    \/ \E c \in Conns, habit \in HabitInputs : create_habit(c, habit)
    \/ \E c \in Conns, doc \in FixedDocs \cup OrphanDocs, f \in ImportFaults :
          import_all_data_doc(c, doc, f)

SpecImport == Init /\ [][NextImport]_vars

Next ==
    \/ \E c \in Conns, goal \in GoalInputs : create_goal(c, goal)
    \/ \E c \in Conns, task \in TaskInputs : create_task(c, task)
    \/ \E c \in Conns, habit \in HabitInputs : create_habit(c, habit)
    \/ \E c \in Conns, completion \in CompletionInputs : create_habit_completion(c, completion)
    \/ \E c \in Conns, settings \in SettingsInputs : save_settings(c, settings)
    \/ \E c \in Conns, id \in HabitIds : delete_habit(c, id)
    \/ \E c \in Conns, id \in GoalIds, st \in StrategyInputs, f \in DeleteGoalFaults :
          delete_goal(c, id, st, f)
    \/ \E c \in Conns : export_all_data(c)
    \/ \E c \in Conns, f \in ImportFaults : import_all_data(c, f)

Spec == Init /\ [][Next]_vars

(***************************************************************************)
(* The update and delete commands of tasks, habits and completions.        *)
(* An UPDATE returns [ok, db, rows]: rows is the number of rows it changed.*)
(***************************************************************************)
\* a command whose handler computed the store t and the record rec
Command(t, rec) ==
    /\ WriteLockFree
    /\ db' = t
    /\ last' = rec
    /\ nops' = nops + 1
    /\ Frame

\* the result of a handler that maps rows == 0 to "not found"
Updated(op, id, fk, r, errmsg) ==
    [NoCommand EXCEPT !.op = op, !.id = id, !.fk = fk,
                      !.ok = r.ok /\ r.rows > 0,
                      !.ret = IF r.ok /\ r.rows > 0 THEN "ok" ELSE "-",
                      !.err = IF ~r.ok THEN errmsg
                              ELSE IF r.rows = 0 THEN "not found" ELSE "-",
                      !.pre = db, !.stmts = <<op>>]

\* UPDATE tasks SET goal_id, parent_task_id, updated_at, ... WHERE id (tasks.rs:71-86);
\* the foreign keys of the changed row are checked when enforced
SqlUpdateTask(s, fk, row) ==
    LET hit == {t \in s.tasks : t.id = row.id}
    IN IF hit = {} THEN [ok |-> TRUE, db |-> s, rows |-> 0]
       ELSE IF \/ row.updated_at = NULL
               \/ fk /\ row.goal_id # NULL /\ row.goal_id \notin Ids(s.goals)
               \/ fk /\ row.parent_task_id # NULL /\ row.parent_task_id \notin Ids(s.tasks)
            THEN [ok |-> FALSE, db |-> s, rows |-> 0]
            ELSE [ok |-> TRUE, db |-> [s EXCEPT !.tasks = (s.tasks \ hit) \cup {row}],
                  rows |-> 1]

\* tasks.rs:63-94
update_task(c, task) ==
    /\ nops < MaxOps
    /\ LET r == SqlUpdateTask(db, ForeignKeysOn(c), task)
       IN Command(r.db, Updated("update_task", task.id, ForeignKeysOn(c), r,
                                "Failed to update task"))

\* tasks.rs:96-109: one DELETE; subtasks go only through ON DELETE CASCADE
delete_task(c, id) ==
    /\ nops < MaxOps
    /\ Command(SqlDeleteTasks(db, ForeignKeysOn(c), {t \in db.tasks : t.id = id}),
               [NoCommand EXCEPT !.op = "delete_task", !.id = id, !.fk = ForeignKeysOn(c),
                   !.ret = IF id \in Ids(db.tasks) THEN "true" ELSE "false",
                   !.pre = db, !.stmts = <<"DELETE tasks">>])

\* UPDATE habits SET ..., linked_goals = ?11, ... WHERE id (habits.rs:133-159)
SqlUpdateHabit(s, row) ==
    LET hit == {h \in s.habits : h.id = row.id}
    IN IF hit = {} THEN [ok |-> TRUE, db |-> s, rows |-> 0]
       ELSE [ok |-> TRUE, db |-> [s EXCEPT !.habits = (s.habits \ hit) \cup {row}],
             rows |-> 1]

\* habits.rs:124-167: the list is stored as the client sent it
update_habit(c, habit) ==
    /\ nops < MaxOps
    /\ LET r == SqlUpdateHabit(db, [id |-> habit.id,
                                    linked_goals |-> to_string(habit.linked_goals)])
       IN Command(r.db, Updated("update_habit", habit.id, ForeignKeysOn(c), r,
                                "Failed to update habit"))

\* UPDATE habit_completions SET completed = ?1, ... WHERE id (habit_completions.rs:97-116):
\* habit_id and date are not among the columns set
SqlUpdateCompletion(s, row) ==
    LET hit == {x \in s.habit_completions : x.id = row.id}
    IN IF hit = {} THEN [ok |-> TRUE, db |-> s, rows |-> 0]
       ELSE [ok |-> TRUE,
             db |-> [s EXCEPT !.habit_completions =
                        {IF x \in hit THEN [x EXCEPT !.completed = row.completed] ELSE x
                           : x \in s.habit_completions}],
             rows |-> 1]

\* habit_completions.rs:89-123
update_habit_completion(c, completion) ==
    /\ nops < MaxOps
    /\ LET r == SqlUpdateCompletion(db, completion)
       IN Command(r.db, Updated("update_habit_completion", completion.id, ForeignKeysOn(c), r,
                                "Failed to update habit completion"))

(***************************************************************************)
(* The settings commands (settings.rs:417-530, 637-651).                   *)
(***************************************************************************)
Saved(op, fk, ok, errmsg) ==
    [NoCommand EXCEPT !.op = op, !.fk = fk, !.ok = ok,
                      !.ret = IF ok THEN "settings" ELSE "-",
                      !.err = IF ok THEN "-" ELSE errmsg,
                      !.pre = db,
                      !.stmts = IF ok THEN <<"UPSERT settings">> ELSE <<>>]

\* settings.rs:519-530
reset_settings(c, default_settings) ==
    /\ nops < MaxOps
    /\ Command(save_settings_to_db_impl(db, default_settings),
               Saved("reset_settings", ForeignKeysOn(c), TRUE, "-"))

\* the JSON text handed to import_settings: one that parses to AppSettings or not
SettingsTexts == {[json |-> TRUE, val |-> v] : v \in SettingsInputs}
                   \cup {[json |-> FALSE, val |-> NoSettings]}

\* settings.rs:637-651
import_settings(c, json_data) ==
    /\ nops < MaxOps
    /\ Command(IF json_data.json THEN save_settings_to_db_impl(db, json_data.val) ELSE db,
               Saved("import_settings", ForeignKeysOn(c), json_data.json,
                     "Failed to parse settings"))

\* settings.rs:429-445: load the stored settings, replace one section, save the whole
update_appearance_settings(c, appearance) ==
    /\ nops < MaxOps
    /\ LET loaded == load_settings_from_db(db)
       IN Command(IF loaded.some
                  THEN save_settings_to_db_impl(db, [loaded.val EXCEPT !.appearance = appearance])
                  ELSE db,
                  Saved("update_appearance_settings", ForeignKeysOn(c), loaded.some,
                        "Settings not initialized"))

\* settings.rs:447-463
update_habit_settings(c, habits) ==
    /\ nops < MaxOps
    /\ LET loaded == load_settings_from_db(db)
       IN Command(IF loaded.some
                  THEN save_settings_to_db_impl(db, [loaded.val EXCEPT !.habits = habits])
                  ELSE db,
                  Saved("update_habit_settings", ForeignKeysOn(c), loaded.some,
                        "Settings not initialized"))

(***************************************************************************)
(* Specifications over the commands that write one part of the store.      *)
(***************************************************************************)
\* the commands that write goals rows or habits.linked_goals
NextHabitLinks ==
    \/ \E c \in Conns, goal \in GoalInputs : create_goal(c, goal)
    \/ \E c \in Conns, habit \in HabitInputs : create_habit(c, habit)
    \/ \E c \in Conns, habit \in HabitInputs : update_habit(c, habit)
    \/ \E c \in Conns, id \in GoalIds, st \in StrategyInputs, f \in DeleteGoalFaults :
          delete_goal(c, id, st, f)
    \/ \E c \in Conns, f \in ImportFaults : import_all_data(c, f)

SpecHabitLinks == Init /\ [][NextHabitLinks]_vars

\* the commands that write goals or tasks rows
NextTaskRefs ==
    \/ \E c \in Conns, goal \in GoalInputs : create_goal(c, goal)
    \/ \E c \in Conns, task \in TaskInputs : create_task(c, task)
    \/ \E c \in Conns, task \in TaskInputs : update_task(c, task)
    \/ \E c \in Conns, id \in TaskIds : delete_task(c, id)
    \/ \E c \in Conns, id \in GoalIds, st \in StrategyInputs, f \in DeleteGoalFaults :
          delete_goal(c, id, st, f)
    \/ \E c \in Conns, f \in ImportFaults : import_all_data(c, f)

SpecTaskRefs == Init /\ [][NextTaskRefs]_vars

\* the commands that write habits or habit_completions rows
NextCompletions ==
    \/ \E c \in Conns, habit \in HabitInputs : create_habit(c, habit)
    \/ \E c \in Conns, completion \in CompletionInputs : create_habit_completion(c, completion)
    \/ \E c \in Conns, completion \in CompletionInputs : update_habit_completion(c, completion)
    \/ \E c \in Conns, id \in HabitIds : delete_habit(c, id)
    \/ \E c \in Conns, f \in ImportFaults : import_all_data(c, f)

SpecCompletions == Init /\ [][NextCompletions]_vars

\* every command that touches the settings table
NextSettings ==
    \/ \E c \in Conns, settings \in SettingsInputs : save_settings(c, settings)
    \/ \E c \in Conns, settings \in SettingsInputs : reset_settings(c, settings)
    \/ \E c \in Conns, text \in SettingsTexts : import_settings(c, text)
    \/ \E c \in Conns, settings \in SettingsInputs :
          update_appearance_settings(c, settings.appearance)
    \/ \E c \in Conns, settings \in SettingsInputs :
          update_habit_settings(c, settings.habits)
    \/ \E c \in Conns : export_all_data(c)
    \/ \E c \in Conns, f \in ImportFaults : import_all_data(c, f)

SpecSettings == Init /\ [][NextSettings]_vars

(***************************************************************************)
(* get_habit_streak (habit_completions.rs:248-288): the recursive query.   *)
(***************************************************************************)
HabitRows(s, habit_id) == {c \in s.habit_completions : c.habit_id = habit_id}

\* latest_completion: ... WHERE habit_id = ?1 ORDER BY date DESC LIMIT 1
latest_completion(s, habit_id) ==
    LET top == {c \in HabitRows(s, habit_id) :
                   \A o \in HabitRows(s, habit_id) : o.date <= c.date}
    IN IF top = {} THEN {} ELSE {CHOOSE c \in top : TRUE}

\* date(hc.date, '+1 day')
NextDay(d) == d + 1

\* an anchor that takes the latest record whatever its completed flag
StreakAnchorAny(latest) == {<<c.date, 1>> : c \in latest}
\* SELECT date, 1 FROM latest_completion WHERE completed = 1
StreakAnchor(latest) == {<<c.date, 1>> : c \in {x \in latest : x.completed}}

\* SELECT hc.date, sd.days + 1 FROM habit_completions hc INNER JOIN streak_dates sd
\*   ON date(hc.date, '+1 day') = sd.current_date
\*   WHERE hc.habit_id = ?1 AND hc.completed = 1
StreakJoin(s, habit_id, sd) ==
    UNION { {<<hc.date, e[2] + 1>> :
                hc \in {x \in HabitRows(s, habit_id) :
                           x.completed /\ NextDay(x.date) = e[1]}}
            : e \in sd }

\* streak_dates(current_date, days): the rows the recursion adds from the rows
\* it added last, until it adds none
RECURSIVE streak_dates(_, _, _)
streak_dates(s, habit_id, frontier) ==
    IF frontier = {} THEN {}
    ELSE frontier \cup streak_dates(s, habit_id, StreakJoin(s, habit_id, frontier))

\* SELECT COALESCE(MAX(days), 0) FROM streak_dates
get_habit_streak_query(s, habit_id) ==
    LET sd == streak_dates(s, habit_id, StreakAnchor(latest_completion(s, habit_id)))
    IN IF sd = {} THEN 0
       ELSE CHOOSE n \in {e[2] : e \in sd} : \A e \in sd : e[2] <= n

StreakFaults == {"none", "query"}

\* the handler: query_row(...).unwrap_or(0), then Ok(streak)
get_habit_streak_run(s, habit_id, fault) ==
    LET q == IF fault = "query" THEN [ok |-> FALSE, val |-> 0]
             ELSE [ok |-> TRUE, val |-> get_habit_streak_query(s, habit_id)]
    IN [ok |-> TRUE, n |-> IF q.ok THEN q.val ELSE 0]

get_habit_streak(c, habit_id, fault) ==
    /\ nops < MaxOps
    /\ LET r == get_habit_streak_run(db, habit_id, fault)
       IN last' = [NoCommand EXCEPT !.op = "get_habit_streak", !.id = habit_id,
                      !.fk = ForeignKeysOn(c), !.fault = fault, !.ok = r.ok,
                      !.ret = "streak", !.n = r.n, !.pre = db,
                      !.stmts = <<"SELECT streak">>]
    /\ nops' = nops + 1
    /\ UNCHANGED db
    /\ Frame

\* completion histories: per day, no record, a completed one or a not-completed one
Histories == [Dates -> {"none", "done", "missed"}]
HistoryRows(habit_id, hist) ==
    {Completion(<<habit_id, d>>, habit_id, d, hist[d] = "done")
        : d \in {x \in Dates : hist[x] # "none"}}
\* stores that create_habit and create_habit_completion build: habit h1 with a
\* history, habit h2 with or without a completed record on the last day
StreakStores ==
    {[EmptyDb EXCEPT !.habits = {[id |-> "h1", linked_goals |-> to_string(<<>>)],
                                 [id |-> "h2", linked_goals |-> to_string(<<>>)]},
                     !.habit_completions =
                         HistoryRows("h1", hist) \cup
                         (IF other THEN {Completion(<<"h2", MaxDay>>, "h2", MaxDay, TRUE)}
                                   ELSE {})]
       : hist \in Histories, other \in BOOLEAN}

InitStreak ==
    /\ db \in StreakStores
    /\ fkDefault \in BOOLEAN
    /\ last = NoCommand
    /\ nops = 0
    /\ deletedGoals = {}
    /\ inflight = Idle

NextStreak ==
    \E c \in Conns, habit_id \in HabitIds, fault \in StreakFaults :
        get_habit_streak(c, habit_id, fault)

SpecStreak == InitStreak /\ [][NextStreak]_vars

(***************************************************************************)
(* Statement-by-statement runs of export_all_data, delete_goal and         *)
(* import_all_data next to commands on other connections.  The database    *)
(* is in WAL mode (database.rs:79): a reader sees the committed store, one *)
(* connection at a time holds the write lock, a write in a transaction     *)
(* whose snapshot is no longer the committed store fails (SQLITE_BUSY).    *)
(***************************************************************************)
\* a statement that is committed as soon as it has run
StatementAutocommit(committed, work) == work
\* goals.rs:135-156, settings.rs:585-608: the statements are executed on the
\* rusqlite Transaction; the committed store keeps its content until tx.commit()
InTransaction(committed, work) == committed

\* settings.rs:539-544: the handler up to the settings read (on a connection of
\* its own, load_settings_from_db)
export_begin(c) ==
    /\ nops < MaxOps
    /\ ~ExportRunning(inflight)
    /\ LET loaded == load_settings_from_db(db)
       IN IF RequireSettings(loaded)
          THEN /\ inflight' = [inflight EXCEPT !.ex =
                                  [pc |-> "goals", seen |-> {db},
                                   doc |-> [NoDoc EXCEPT !.settings = loaded.val]]]
               /\ UNCHANGED last
          ELSE /\ inflight' = [inflight EXCEPT !.ex = NoExport]
               /\ last' = [NoCommand EXCEPT !.op = "export_all_data",
                              !.fk = ForeignKeysOn(c), !.ok = FALSE,
                              !.err = "Settings not initialized", !.pre = db,
                              !.stmts = <<"SELECT settings">>]
    /\ nops' = nops + 1
    /\ UNCHANGED <<db, fkDefault, deletedGoals>>

\* settings.rs:547-550: one SELECT per table, each in autocommit mode on the
\* handler's connection; the last one completes the document (552-568)
export_read ==
    /\ ExportRunning(inflight)
    /\ LET ex == inflight.ex
           doc == CASE ex.pc = "goals" ->
                         [ex.doc EXCEPT !.goals = Map(RowsOf(db.goals), GoalDataOf)]
                    [] ex.pc = "tasks" ->
                         [ex.doc EXCEPT !.tasks = Map(RowsOf(db.tasks), TaskDataOf)]
                    [] ex.pc = "habits" ->
                         [ex.doc EXCEPT !.habits = Map(RowsOf(db.habits), HabitDataOf)]
                    [] OTHER ->
                         [ex.doc EXCEPT
                            !.habit_completions =
                                Map(RowsOf(db.habit_completions), CompletionDataOf),
                            !.total_records =
                                Len(ex.doc.goals) + Len(ex.doc.tasks) + Len(ex.doc.habits)
                                  + Cardinality(db.habit_completions)]
           pc == CASE ex.pc = "goals" -> "tasks"
                   [] ex.pc = "tasks" -> "habits"
                   [] ex.pc = "habits" -> "habit_completions"
                   [] OTHER -> "done"
       IN /\ inflight' = [inflight EXCEPT !.ex.doc = doc, !.ex.pc = pc]
          /\ last' = IF pc = "done"
                     THEN [NoCommand EXCEPT !.op = "export_all_data", !.ret = "document",
                              !.out = doc, !.pre = db,
                              !.stmts = <<"SELECT settings", "SELECT goals", "SELECT tasks",
                                          "SELECT habits", "SELECT habit_completions">>]
                     ELSE last
    /\ UNCHANGED <<db, fkDefault, nops, deletedGoals>>

\* what a step of the transaction in flight leaves of the variables: the
\* committed store t, the transaction record tx, and last
TxStep(t, tx, rec) ==
    /\ db' = t
    /\ deletedGoals' = deletedGoals \cup (Ids(db.goals) \ Ids(t.goals))
    /\ inflight' = [Observe(inflight, db, t) EXCEPT !.tx = tx]
    /\ last' = rec
    /\ UNCHANGED <<fkDefault, nops>>

\* the transaction is dropped on an early return: rollback
TxAbort(errmsg) ==
    LET tx == inflight.tx
    IN TxStep(db, NoTx,
              [NoCommand EXCEPT !.op = tx.op, !.id = tx.id, !.strategy = tx.strategy,
                                !.doc = tx.doc, !.fk = tx.fk, !.ok = FALSE, !.err = errmsg,
                                !.pre = db, !.stmts = tx.stmts])

\* a writing statement of the transaction: it needs the write lock, which a
\* transaction with a stale snapshot does not get
TxWrite(work, stmts, pc, errmsg) ==
    LET tx == inflight.tx
    IN IF ~tx.wlock /\ tx.stale
       THEN TxAbort(errmsg)
       ELSE TxStep(InTransaction(db, work),
                   [tx EXCEPT !.work = work, !.wlock = TRUE, !.pc = pc,
                              !.stmts = @ \o stmts],
                   last)

\* tx.commit()
TxCommit(ret) ==
    LET tx == inflight.tx
    IN TxStep(tx.work, NoTx,
              [NoCommand EXCEPT !.op = tx.op, !.id = tx.id, !.strategy = tx.strategy,
                                !.doc = tx.doc, !.fk = tx.fk, !.ret = ret,
                                !.pre = tx.base, !.stmts = tx.stmts \o <<"COMMIT">>])

\* goals.rs:125-139, 165-180: connection, strategy, BEGIN DEFERRED and the
\* SELECT over habits, which takes the read snapshot
delete_goal_begin(c, id, delete_strategy) ==
    /\ nops < MaxOps
    /\ inflight.tx.pc = "idle"
    /\ inflight' = [inflight EXCEPT !.tx =
                       [NoTx EXCEPT !.pc = "habits", !.op = "delete_goal", !.id = id,
                                    !.strategy = delete_strategy, !.fk = ForeignKeysOn(c),
                                    !.base = db, !.work = db,
                                    !.stmts = <<"SELECT habits">>]]
    /\ nops' = nops + 1
    /\ UNCHANGED <<db, fkDefault, last, deletedGoals>>

\* goals.rs:181-195, 142-158: the UPDATEs of habits, the task statement, the
\* DELETE of the goal, the commit
delete_goal_step ==
    /\ inflight.tx.op = "delete_goal"
    /\ LET tx == inflight.tx
           n == Cardinality({h \in tx.work.habits : NeedsRewrite(h, tx.id)})
           strategy == ParseStrategy(tx.strategy)
       IN CASE tx.pc = "habits" /\ n = 0 ->
                  TxStep(db, [tx EXCEPT !.pc = "tasks"], last)
            [] tx.pc = "habits" /\ n > 0 ->
                  TxWrite(update_habit_linked_goals_tx(tx.work, tx.id),
                          Rep("UPDATE habits", n), "tasks", "Failed to update habit")
            [] tx.pc = "tasks" ->
                  TxWrite(ResolveTasks(tx.work, tx.fk, tx.id, strategy),
                          <<IF strategy = "Cascade" THEN "DELETE tasks" ELSE "UPDATE tasks">>,
                          "goal", "Failed to resolve associated tasks")
            [] tx.pc = "goal" ->
                  TxWrite(SqlDeleteGoals(tx.work, tx.fk, {g \in tx.work.goals : g.id = tx.id}),
                          <<"DELETE goals">>, "commit", "Failed to delete goal")
            [] OTHER ->
                  TxCommit(IF tx.id \in Ids(tx.base.goals) THEN "true" ELSE "false")

ConcDocs == {DocA, DocDup}

\* settings.rs:577-589, 316-338: connection, parse, BEGIN DEFERRED and the first
\* step, whose DELETE FROM tasks takes snapshot and write lock at once
import_begin(c, doc) ==
    /\ nops < MaxOps
    /\ inflight.tx.pc = "idle"
    /\ ParseExportData(doc)
    /\ LET g == import_goals_data(db, ForeignKeysOn(c), doc.goals)
           tx == [NoTx EXCEPT !.pc = "tasks", !.op = "import_all_data", !.doc = doc,
                              !.fk = ForeignKeysOn(c), !.base = db, !.work = g.db,
                              !.wlock = TRUE, !.stmts = g.stmts]
       IN /\ g.ok
          /\ db' = InTransaction(db, g.db)
          /\ deletedGoals' = deletedGoals \cup (Ids(db.goals) \ Ids(db'.goals))
          /\ inflight' = [Observe(inflight, db, db') EXCEPT !.tx = tx]
    /\ nops' = nops + 1
    /\ UNCHANGED <<fkDefault, last>>

\* settings.rs:593-611: the remaining steps and the commit
import_step ==
    /\ inflight.tx.op = "import_all_data"
    /\ LET tx == inflight.tx
           r == CASE tx.pc = "tasks" -> import_tasks_data(tx.work, tx.fk, tx.doc.tasks)
                  [] tx.pc = "habits" -> import_habits_data(tx.work, tx.fk, tx.doc.habits)
                  [] tx.pc = "habit_completions" ->
                        import_habit_completions_data(tx.work, tx.fk, tx.doc.habit_completions)
                  [] OTHER -> [ok |-> TRUE, db |-> save_settings_to_db_impl(tx.work, tx.doc.settings),
                               stmts |-> <<"UPSERT settings">>]
           pc == CASE tx.pc = "tasks" -> "habits"
                   [] tx.pc = "habits" -> "habit_completions"
                   [] tx.pc = "habit_completions" -> "settings"
                   [] OTHER -> "commit"
       IN CASE tx.pc = "commit" -> TxCommit("summary")
            [] tx.pc # "commit" /\ ~r.ok -> TxAbort("Failed to insert " \o tx.pc)
            [] OTHER -> TxWrite(r.db, r.stmts, pc, "Failed to insert " \o tx.pc)

\* a store that save_settings, create_goal, create_task and create_habit build
SeedDb ==
    [EmptyDb EXCEPT !.settings = {SettingsRow([appearance |-> "light", habits |-> "p1"])},
                    !.goals = {[id |-> "g1"]},
                    !.tasks = {Task("t1", "g1", NULL)},
                    !.habits = {[id |-> "h1",
                                 linked_goals |-> to_string(<<"g1", "g2", "g1">>)]}]

InitConc ==
    /\ db = SeedDb
    /\ fkDefault \in BOOLEAN
    /\ last = NoCommand
    /\ nops = 0
    /\ deletedGoals = {}
    /\ inflight = Idle

ConcStrategies == {"cascade", NULL}

NextConc ==
    \/ \E c \in Conns : export_begin(c)
    \/ export_read
    \/ \E c \in Conns, id \in GoalIds, st \in ConcStrategies : delete_goal_begin(c, id, st)
    \/ delete_goal_step
    \/ \E c \in Conns, doc \in ConcDocs : import_begin(c, doc)
    \/ import_step
    \/ \E c \in Conns, goal \in GoalInputs : create_goal(c, goal)
    \/ \E c \in Conns, task \in TaskInputs : create_task(c, task)
    \/ \E c \in Conns, habit \in HabitInputs : update_habit(c, habit)
    \/ \E c \in Conns, settings \in SettingsInputs : save_settings(c, settings)

SpecConc == InitConc /\ [][NextConc]_vars

(***************************************************************************)
(* export_all_data and the connection pool (database.rs:59-64,             *)
(* settings.rs:537-569, 167-188).  Each call takes a connection for the    *)
(* table reads and, while it holds it, load_settings_from_db takes a       *)
(* second one.  Pool::get waits for a free connection and gives up after   *)
(* connection_timeout (30 s): far longer than any step of a handler, so a  *)
(* wait ends in a timeout only when no holder of a connection can go on.   *)
(***************************************************************************)
\* database.rs:61: max_size
PoolSize == MaxConns

\* the connections an export holds at each point of the handler
Held(pc) == CASE pc \in {"wait2", "read"} -> 1
              [] pc = "load" -> 2
              [] OTHER -> 0

RECURSIVE HeldBy(_, _)
HeldBy(pl, ws) ==
    IF ws = {} THEN 0
    ELSE LET w == CHOOSE x \in ws : TRUE IN Held(pl[w]) + HeldBy(pl, ws \ {w})

FreeConnections(pl) == PoolSize - HeldBy(pl, Exporters)

PoolStep(w, pc) ==
    /\ inflight' = [inflight EXCEPT !.pool[w] = pc]
    /\ UNCHANGED <<db, fkDefault, deletedGoals>>

\* settings.rs:539: the command is invoked and asks the pool for its connection
export_call(w) ==
    /\ nops < MaxOps
    /\ inflight.pool[w] = "idle"
    /\ nops' = nops + 1
    /\ UNCHANGED last
    /\ PoolStep(w, "wait1")

\* settings.rs:539, 168: Pool::get returns a free connection; with its own
\* connection in hand the handler goes on into load_settings_from_db, which
\* asks for another
pool_get(w) ==
    /\ inflight.pool[w] \in {"wait1", "wait2"}
    /\ FreeConnections(inflight.pool) > 0
    /\ UNCHANGED <<last, nops>>
    /\ PoolStep(w, IF inflight.pool[w] = "wait1" THEN "wait2" ELSE "load")

\* settings.rs:540, 169: Pool::get gives up; the handler returns the error and
\* drops the connection it may hold
pool_get_timeout(w) ==
    /\ inflight.pool[w] \in {"wait1", "wait2"}
    /\ FreeConnections(inflight.pool) = 0
    /\ \A v \in Exporters : inflight.pool[v] \notin {"load", "read"}
    /\ last' = [NoCommand EXCEPT !.op = "export_all_data", !.ok = FALSE,
                   !.err = "Failed to get database connection", !.pre = db]
    /\ UNCHANGED nops
    /\ PoolStep(w, "idle")

\* settings.rs:171-187, 543-544: the settings are read and the second connection
\* goes back to the pool; without a settings row the handler returns the error
export_load_settings(w) ==
    /\ inflight.pool[w] = "load"
    /\ UNCHANGED nops
    /\ IF RequireSettings(load_settings_from_db(db))
       THEN /\ UNCHANGED last
            /\ PoolStep(w, "read")
       ELSE /\ last' = [NoCommand EXCEPT !.op = "export_all_data", !.ok = FALSE,
                           !.err = "Settings not initialized", !.pre = db,
                           !.stmts = <<"SELECT settings">>]
            /\ PoolStep(w, "idle")

\* settings.rs:547-568: the table reads, the document, the connection dropped
export_return(w) ==
    /\ inflight.pool[w] = "read"
    /\ LET r == export_all_data_run(db)
       IN last' = [NoCommand EXCEPT !.op = "export_all_data", !.ok = r.ok,
                      !.ret = "document", !.err = r.err, !.out = r.out, !.pre = db,
                      !.stmts = <<"SELECT settings", "SELECT goals", "SELECT tasks",
                                  "SELECT habits", "SELECT habit_completions">>]
    /\ UNCHANGED nops
    /\ PoolStep(w, "idle")

InitPool ==
    /\ db \in {EmptyDb, SeedDb}
    /\ fkDefault \in BOOLEAN
    /\ last = NoCommand
    /\ nops = 0
    /\ deletedGoals = {}
    /\ inflight = Idle

NextPool ==
    \/ \E w \in Exporters : export_call(w)
    \/ \E w \in Exporters : pool_get(w)
    \/ \E w \in Exporters : pool_get_timeout(w)
    \/ \E w \in Exporters : export_load_settings(w)
    \/ \E w \in Exporters : export_return(w)

SpecPool == InitPool /\ [][NextPool]_vars

(***************************************************************************)
(* The partial settings updates, statement by statement (settings.rs:      *)
(* 430-463): load_settings_from_db on one pooled connection, the section   *)
(* replaced in the loaded copy, the whole copy saved on another            *)
(* connection.  Nothing ties the two statements together, so commands of   *)
(* other workers may commit between them.                                  *)
(***************************************************************************)
\* the command that updates a section
UpdateOp(section) ==
    IF section = "appearance" THEN "update_appearance_settings" ELSE "update_habit_settings"

\* settings.rs:435-438, 453-456: load, or "Settings not initialized"; the
\* section of the loaded copy is replaced
UpdateLoad(u, section, value) ==
    /\ nops < MaxOps
    /\ inflight.upd[u].pc = "idle"
    /\ LET loaded == load_settings_from_db(db)
       IN IF RequireSettings(loaded)
          THEN /\ inflight' = [inflight EXCEPT !.upd[u] =
                                  [NoUpdate EXCEPT !.pc = "loaded", !.section = section,
                                      !.settings = [loaded.val EXCEPT ![section] = value]]]
               /\ UNCHANGED last
          ELSE /\ last' = [NoCommand EXCEPT !.op = UpdateOp(section),
                              !.id = u, !.ok = FALSE, !.err = "Settings not initialized",
                              !.pre = db, !.stmts = <<"SELECT settings">>]
               /\ UNCHANGED inflight
    /\ nops' = nops + 1
    /\ UNCHANGED <<db, fkDefault, deletedGoals>>

\* settings.rs:430-438
update_appearance_settings_load(u, appearance) ==
    /\ nops < MaxOps
    /\ UpdateLoad(u, "appearance", appearance)

\* settings.rs:448-456
update_habit_settings_load(u, habits) ==
    /\ nops < MaxOps
    /\ UpdateLoad(u, "habits", habits)

\* settings.rs:440-445, 458-463: connection, save, Ok(settings).  Every update
\* still between its load and its save notes the section written under it.
update_settings_save(u) ==
    /\ inflight.upd[u].pc = "loaded"
    /\ WriteLockFree
    /\ LET me == inflight.upd[u]
           t == save_settings_to_db_impl(db, me.settings)
           noted == [v \in Updaters |->
                       IF v = u THEN [me EXCEPT !.pc = "idle"]
                       ELSE IF inflight.upd[v].pc = "loaded"
                            THEN [inflight.upd[v] EXCEPT
                                     !.seen[me.section] = me.settings[me.section]]
                            ELSE inflight.upd[v]]
       IN /\ db' = t
          /\ inflight' = [Observe(inflight, db, t) EXCEPT !.upd = noted]
          /\ last' = [NoCommand EXCEPT !.op = UpdateOp(me.section),
                         !.id = u, !.ret = "settings", !.pre = db,
                         !.stmts = <<"SELECT settings", "UPSERT settings">>]
    /\ UNCHANGED <<fkDefault, nops, deletedGoals>>

InitUpdates ==
    /\ db \in {EmptyDb, SeedDb}
    /\ fkDefault \in BOOLEAN
    /\ last = NoCommand
    /\ nops = 0
    /\ deletedGoals = {}
    /\ inflight = Idle

NextUpdates ==
    \/ \E u \in Updaters, settings \in SettingsInputs :
          update_appearance_settings_load(u, settings.appearance)
    \/ \E u \in Updaters, settings \in SettingsInputs :
          update_habit_settings_load(u, settings.habits)
    \/ \E u \in Updaters : update_settings_save(u)

SpecUpdates == InitUpdates /\ [][NextUpdates]_vars

(***************************************************************************)
(* The notification tables (notifications.rs:101-128, 212-237) next to the *)
(* commands that delete habits.                                            *)
(***************************************************************************)
ScheduleInputs == {[habit_id |-> h, scheduled_time |-> "08:00"] : h \in HabitIds}
HistoryInputs == {[id |-> "n1", habit_id |-> "h1"], [id |-> "n2", habit_id |-> "h2"]}

\* notifications.rs:101-128
schedule_notification(c, schedule) ==
    /\ nops < MaxOps
    /\ Single("schedule_notification", schedule.habit_id, ForeignKeysOn(c),
              SqlReplaceSchedule(db, ForeignKeysOn(c), schedule),
              "Failed to schedule notification")

\* notifications.rs:212-237
record_notification(c, history) ==
    /\ nops < MaxOps
    /\ Single("record_notification", history.id, ForeignKeysOn(c),
              SqlInsertHistory(db, ForeignKeysOn(c), history),
              "Failed to record notification")

NextNotifications ==
    \/ \E c \in Conns, habit \in HabitInputs : create_habit(c, habit)
    \/ \E c \in Conns, schedule \in ScheduleInputs : schedule_notification(c, schedule)
    \/ \E c \in Conns, history \in HistoryInputs : record_notification(c, history)
    \/ \E c \in Conns, id \in HabitIds : delete_habit(c, id)
    \/ \E c \in Conns, f \in ImportFaults : import_all_data(c, f)

SpecNotifications == Init /\ [][NextNotifications]_vars

(***************************************************************************)
(* Properties.                                                             *)
(***************************************************************************)
IsDeleteGoal == last.op = "delete_goal"
IsImport == last.op = "import_all_data"

\* C1: once delete_goal(G, "cascade") has returned successfully, no task has
\* goal_id = G and no habit's linked_goals list contains G.
C1_CascadeLeavesNoReference ==
    (IsDeleteGoal /\ last.strategy = "cascade" /\ last.ok) =>
        /\ \A t \in db.tasks : t.goal_id # last.id
        /\ \A h \in db.habits : ~Contains(LinkedGoalsOf(h), last.id)

C1_Witness ==
    /\ IsDeleteGoal /\ last.strategy = "cascade" /\ last.ok /\ last.ret = "true"
    /\ \E t \in last.pre.tasks : t.goal_id = last.id
    /\ \E h \in last.pre.habits : Contains(LinkedGoalsOf(h), last.id)

\* C2: once delete_goal(G, "nullify") has returned successfully, every task that
\* had goal_id = G before the call still exists and has goal_id = NULL.
C2_NullifyKeepsTasks ==
    (IsDeleteGoal /\ last.strategy = "nullify" /\ last.ok) =>
        \A t \in last.pre.tasks :
            t.goal_id = last.id => [t EXCEPT !.goal_id = NULL] \in db.tasks

C2_Witness ==
    /\ IsDeleteGoal /\ last.strategy = "nullify" /\ last.ok /\ last.ret = "true"
    /\ last.fk
    /\ \E t \in last.pre.tasks : t.goal_id = last.id

\* C3: delete_goal with an id that has no goals row returns false (no storage
\* fault being injected) and leaves goals, tasks, habits, habit_completions and
\* settings as they were.
C3_AbsentGoalNoEffect ==
    (IsDeleteGoal /\ last.fault = "none" /\ last.id \notin Ids(last.pre.goals)) =>
        /\ last.ok /\ last.ret = "false"
        /\ db = last.pre

\* C4: a delete_goal that fails in any step returns an error and leaves habits,
\* tasks and goals as they were before the call.
C4_DeleteGoalAllOrNothing ==
    (IsDeleteGoal /\ ~last.ok) =>
        /\ last.err # "-"
        /\ db.habits = last.pre.habits
        /\ db.tasks = last.pre.tasks
        /\ db.goals = last.pre.goals

C4_Witness ==
    /\ IsDeleteGoal /\ ~last.ok /\ last.fault = "goal"
    /\ last.id \in Ids(last.pre.goals)
    /\ \E t \in last.pre.tasks : t.goal_id = last.id
    /\ \E h \in last.pre.habits : Contains(LinkedGoalsOf(h), last.id)

\* C5: once delete_habit(H) has deleted habit H and returned, no
\* habit_completions row has habit_id = H, on whichever connection the delete ran.
C5_DeleteHabitLeavesNoCompletion ==
    (last.op = "delete_habit" /\ last.ok /\ last.ret = "true") =>
        \A c \in db.habit_completions : c.habit_id # last.id

\* C6: importing the document that export_all_data returns for the store
\* succeeds (no storage fault being injected) and leaves every table, with every
\* column of every task, and the settings as they were.
C6_RoundTrip ==
    (/\ IsImport /\ last.fault = "none"
     /\ export_all_data_run(last.pre).ok
     /\ last.doc = export_all_data_run(last.pre).out) =>
        /\ last.ok
        /\ db = last.pre

\* C7: an import_all_data that fails after its transaction has started returns
\* an error and leaves goals, tasks, habits, habit_completions and settings as
\* they were before the call.
C7_ImportAllOrNothing ==
    (IsImport /\ ~last.ok) => (last.err # "-" /\ db = last.pre)

C7_Witness ==
    /\ IsImport /\ ~last.ok /\ last.doc = DocDup
    /\ last.err = "Failed to insert habit completion"
    /\ last.pre.goals # {} /\ last.pre.tasks # {}

\* C8: import_all_data of a document that does not parse or lacks a required
\* section returns an error before any DELETE or INSERT is executed.
C8_MalformedFailsBeforeMutation ==
    (IsImport /\ last.doc.missing # {}) =>
        /\ ~last.ok
        /\ last.stmts = <<>>
        /\ db = last.pre

C8_Witness ==
    /\ IsImport /\ last.doc = DocNoMetadata /\ ~last.ok
    /\ last.pre.goals # {} /\ (last.pre.settings # {})

\* C9: after a successful import_all_data(D) the four tables hold exactly the
\* records of D and the stored settings are D's settings.
Range(seq) == {seq[i] : i \in 1..Len(seq)}
C9_ImportReplaces ==
    (IsImport /\ last.ok) =>
        /\ {GoalDataOf(r) : r \in db.goals} = Range(last.doc.goals)
        /\ {TaskDataOf(r) : r \in db.tasks} = Range(last.doc.tasks)
        /\ {HabitDataOf(r) : r \in db.habits} = Range(last.doc.habits)
        /\ {CompletionDataOf(r) : r \in db.habit_completions}
              = Range(last.doc.habit_completions)
        /\ Cardinality(db.goals) = Len(last.doc.goals)
        /\ Cardinality(db.habits) = Len(last.doc.habits)
        /\ Cardinality(db.habit_completions) = Len(last.doc.habit_completions)
        /\ db.settings = {SettingsRow(last.doc.settings)}

C9_Witness ==
    /\ IsImport /\ last.ok /\ last.doc = DocA
    /\ last.pre.tasks # {} /\ db.tasks = {}
    /\ \E h \in last.pre.habits : h \notin db.habits

\* C10: export_all_data without a saved settings row returns the error
\* "Settings not initialized" and modifies no table.
C10_ExportNeedsSettings ==
    (last.op = "export_all_data" /\ ~(last.pre.settings # {})) =>
        /\ ~last.ok /\ last.err = "Settings not initialized"
        /\ last.out = NoDoc
        /\ db = last.pre

C10_Witness ==
    /\ last.op = "export_all_data" /\ ~(last.pre.settings # {}) /\ ~last.ok
    /\ last.pre.goals # {} /\ last.pre.habits # {}

\* C11: for every stored history with unique dates, get_habit_streak returns
\* the result of the linear scan: from the most recent record of the habit, count
\* the records while each is completed and dated exactly one day before the one
\* counted last; 0 for an empty history or a not-completed latest record.
RECURSIVE LinearScan(_, _, _)
LinearScan(rows, prev, n) ==
    IF rows = {} THEN n
    ELSE LET r == CHOOSE x \in rows : \A o \in rows : o.date <= x.date
         IN IF ~r.completed \/ (n > 0 /\ r.date # prev - 1) THEN n
            ELSE LinearScan(rows \ {r}, r.date, n + 1)

C11_StreakIsLinearScan ==
    (last.op = "get_habit_streak" /\ last.fault = "none") =>
        /\ last.ok
        /\ last.n = LinearScan(HabitRows(db, last.id), 0, 0)

C11_Witness ==
    /\ last.op = "get_habit_streak" /\ last.fault = "none" /\ last.n = 2
    /\ Cardinality({c \in HabitRows(db, last.id) : c.completed}) = 3
    /\ \E c \in db.habit_completions : c.habit_id # last.id /\ c.completed

\* C12: in every state reached by create_goal, create_habit, update_habit,
\* delete_goal and import_all_data, no habit's linked_goals list contains the id
\* of a goal that was deleted and does not exist now.
C12_NoDeletedGoalLinked ==
    \A h \in db.habits : \A g \in deletedGoals \ Ids(db.goals) :
        ~Contains(LinkedGoalsOf(h), g)

\* C13: in every state reached by create_task, update_task, delete_task,
\* delete_goal and import_all_data on any connection of the pool, each task's
\* goal_id is NULL or the id of a goals row and each task's parent_task_id is
\* NULL or the id of a tasks row.
C13_TaskReferencesExist ==
    \A t \in db.tasks :
        /\ t.goal_id = NULL \/ t.goal_id \in Ids(db.goals)
        /\ t.parent_task_id = NULL \/ t.parent_task_id \in Ids(db.tasks)

\* C14: in every reachable state there is at most one habit_completions row per
\* (habit_id, date), whatever create_habit_completion, update_habit_completion
\* and import_all_data calls were made.
C14_OneCompletionPerDay ==
    \A a \in db.habit_completions : \A b \in db.habit_completions :
        (a.habit_id = b.habit_id /\ a.date = b.date) => a = b

C14_Witness ==
    /\ last.op = "create_habit_completion" /\ last.ok
    /\ last.id \notin Ids(db.habit_completions)
    /\ db.habit_completions # last.pre.habit_completions
    /\ Cardinality(db.habit_completions) = Cardinality(last.pre.habit_completions)

\* C15: delete_goal takes the Cascade arm only when the strategy argument is
\* exactly "cascade"; with no argument or any other string it takes Nullify, and
\* the goal's tasks survive with goal_id = NULL.
C15_CascadeOnlyWhenExact ==
    (IsDeleteGoal /\ last.ok) =>
        /\ Contains(last.stmts, "DELETE tasks") <=> (last.strategy = "cascade")
        /\ Contains(last.stmts, "UPDATE tasks") <=> (last.strategy # "cascade")
        /\ \A t \in last.pre.tasks : t.goal_id = last.id =>
              IF last.strategy = "cascade" THEN t.id \notin Ids(db.tasks)
              ELSE [t EXCEPT !.goal_id = NULL] \in db.tasks

C15_Witness ==
    /\ IsDeleteGoal /\ last.ok /\ last.ret = "true" /\ last.fk
    /\ last.strategy = "CASCADE"
    /\ \E t \in last.pre.tasks : t.goal_id = last.id
    /\ \E t \in db.tasks : t.goal_id = NULL

\* C16: the document export_all_data returns is the export of one single
\* committed state of the store, whatever commits on other connections between
\* its per-table reads.
C16_ExportIsSnapshot ==
    (inflight.ex.pc = "done") =>
        \E s \in inflight.ex.seen :
            /\ export_all_data_run(s).ok
            /\ export_all_data_run(s).out = inflight.ex.doc

\* C17: the statements of one delete_goal, and of one import_all_data, run in
\* one transaction on one connection: while it has uncommitted statements the
\* committed store, which every other connection reads and commits against, is
\* the store the transaction started from, and what it commits or rolls back
\* is what the whole handler makes of that store.
C17_TransactionIsolated ==
    /\ inflight.tx.wlock => db = inflight.tx.base
    /\ (IsDeleteGoal /\ last.ok) =>
          db = delete_goal_run(last.pre, last.fk, last.id, last.strategy, "none").db
    /\ (IsImport /\ last.ok) =>
          db = import_all_data_run(last.pre, last.fk, last.doc, "none").db
    /\ ((IsDeleteGoal \/ IsImport) /\ ~last.ok) => db = last.pre

C17_Witness ==
    /\ inflight.tx.op = "delete_goal" /\ inflight.tx.wlock
    /\ inflight.tx.work.habits # inflight.tx.base.habits
    /\ inflight.tx.id \in Ids(inflight.tx.work.goals)
    /\ inflight.ex.pc = "habits"
    /\ db = inflight.tx.base

\* C18: the settings table never holds more than one row; a successful save
\* (save_settings, reset_settings, import_settings, import_all_data, an
\* update_*_settings call) leaves exactly one row, and no step of any command
\* takes the table from one row to another number of rows.
SaveOps == {"save_settings", "reset_settings", "import_settings", "import_all_data",
            "update_appearance_settings", "update_habit_settings"}
C18_SettingsSingleton ==
    /\ [](/\ Cardinality(db.settings) <= 1
          /\ (last.op \in SaveOps /\ last.ok) => Cardinality(db.settings) = 1)
    /\ [][Cardinality(db.settings) = 1 => Cardinality(db'.settings) = 1]_vars

C18_Witness ==
    /\ last.op = "update_habit_settings" /\ last.ok
    /\ Cardinality(last.pre.settings) = 1
    /\ Cardinality(db.settings) = 1
    /\ db.settings # last.pre.settings

\* C19: when the storage query of get_habit_streak fails, the caller gets an
\* error result, never a successful streak value.
C19_StreakFailureSurfaces ==
    (last.op = "get_habit_streak" /\ last.fault = "query") =>
        (~last.ok /\ last.err # "-")

\* C20: under either strategy, after a successful delete_goal(G) each habit's
\* linked_goals list is its list before the call without any occurrence of G,
\* the other ids in their order; a habit whose list did not contain G is not
\* written: its row is as it was and the call ran no UPDATE for it.
RECURSIVE Without(_, _)
Without(list, x) ==
    IF list = <<>> THEN <<>>
    ELSE IF Head(list) = x THEN Without(Tail(list), x)
    ELSE <<Head(list)>> \o Without(Tail(list), x)

C20_LinkedGoalsMinusGoal ==
    (IsDeleteGoal /\ last.ok) =>
        /\ Ids(db.habits) = Ids(last.pre.habits)
        /\ \A h \in last.pre.habits : \A k \in db.habits : k.id = h.id =>
              /\ LinkedGoalsOf(k) = Without(LinkedGoalsOf(h), last.id)
              /\ ~Contains(LinkedGoalsOf(h), last.id) => k = h
        /\ Cardinality({i \in 1..Len(last.stmts) : last.stmts[i] = "UPDATE habits"})
              = Cardinality({h \in last.pre.habits : Contains(LinkedGoalsOf(h), last.id)})

C20_Witness ==
    /\ IsDeleteGoal /\ last.ok /\ last.strategy = "nullify"
    /\ \E h \in last.pre.habits :
          /\ LinkedGoalsOf(h) = <<"g1", "g2", "g1">>
          /\ last.id = "g1"
          /\ [h EXCEPT !.linked_goals = to_string(<<"g2">>)] \in db.habits
    /\ \E h \in last.pre.habits : h.linked_goals = NotJson /\ h \in db.habits

\* C21: in every delete_goal transaction the statement that resolves the tasks
\* (DELETE tasks or UPDATE tasks) runs before DELETE goals, and for the tasks
\* that had goal_id = G the successful call gives the same result on a
\* connection that enforces foreign keys as on one that does not: gone under
\* Cascade, kept with goal_id = NULL under Nullify, no task left with goal_id = G.
Pos(seq, x) == CHOOSE i \in 1..Len(seq) : seq[i] = x
TasksOfGoal(s, pre, id) ==
    {t \in s.tasks : \E p \in pre.tasks : p.id = t.id /\ p.goal_id = id}

C21_TasksResolvedBeforeGoal ==
    IsDeleteGoal =>
        /\ "DELETE goals" \in Range(last.stmts) =>
              \E tag \in {"DELETE tasks", "UPDATE tasks"} :
                  /\ tag \in Range(last.stmts)
                  /\ Pos(last.stmts, tag) < Pos(last.stmts, "DELETE goals")
        /\ (last.ok /\ last.fault = "none") =>
              LET on == delete_goal_run(last.pre, TRUE, last.id, last.strategy, "none").db
                  off == delete_goal_run(last.pre, FALSE, last.id, last.strategy, "none").db
                  promised == IF ParseStrategy(last.strategy) = "Cascade" THEN {}
                              ELSE {[t EXCEPT !.goal_id = NULL] :
                                      t \in {p \in last.pre.tasks : p.goal_id = last.id}}
              IN /\ TasksOfGoal(on, last.pre, last.id) = promised
                 /\ TasksOfGoal(off, last.pre, last.id) = promised
                 /\ TasksOfGoal(db, last.pre, last.id) = promised
                 /\ \A t \in on.tasks \cup off.tasks \cup db.tasks : t.goal_id # last.id

C21_Witness ==
    /\ IsDeleteGoal /\ last.ok /\ last.ret = "true" /\ ~last.fk
    /\ last.strategy = "nullify"
    /\ \E t \in last.pre.tasks : t.goal_id = last.id
    /\ Pos(last.stmts, "UPDATE tasks") < Pos(last.stmts, "DELETE goals")

\* C22: the statements of one import_all_data transaction run in the order
\* DELETE tasks, DELETE goals, INSERT goals, INSERT tasks, DELETE
\* habit_completions, DELETE habits, INSERT habits, INSERT habit_completions,
\* settings, COMMIT; when the first task row is inserted every goal of the
\* document is in the store, and when the first completion row is inserted
\* every habit of the document is.
ImportRank(tag) ==
    CASE tag = "DELETE tasks" -> 1
      [] tag = "DELETE goals" -> 2
      [] tag = "INSERT goals" -> 3
      [] tag = "INSERT tasks" -> 4
      [] tag = "DELETE habit_completions" -> 5
      [] tag = "DELETE habits" -> 6
      [] tag = "INSERT habits" -> 7
      [] tag = "INSERT habit_completions" -> 8
      [] tag = "UPSERT settings" -> 9
      [] tag = "COMMIT" -> 10
      [] OTHER -> 0

C22_ImportOrder ==
    IsImport =>
        LET g == import_goals_data(last.pre, last.fk, last.doc.goals)
            t == import_tasks_data(g.db, last.fk, last.doc.tasks)
            h == import_habits_data(t.db, last.fk, last.doc.habits)
        IN /\ \A i \in 1..Len(last.stmts) : ImportRank(last.stmts[i]) > 0
           /\ \A i, j \in 1..Len(last.stmts) :
                 i < j => ImportRank(last.stmts[i]) <= ImportRank(last.stmts[j])
           /\ "INSERT tasks" \in Range(last.stmts) =>
                 /\ g.db.tasks = {}
                 /\ {x.id : x \in Range(last.doc.goals)} \subseteq Ids(g.db.goals)
           /\ "INSERT habit_completions" \in Range(last.stmts) =>
                 /\ h.db.habit_completions = {}
                 /\ {x.id : x \in Range(last.doc.habits)} \subseteq Ids(h.db.habits)

C22_Witness ==
    /\ IsImport /\ last.ok /\ last.doc = DocA
    /\ last.pre.goals # {} /\ last.pre.habits # {} /\ last.pre.habit_completions # {}
    /\ "INSERT habit_completions" \in Range(last.stmts)
    /\ Pos(last.stmts, "DELETE habits") < Pos(last.stmts, "INSERT habit_completions")

\* C23: import_all_data of a document in which a task names a goal, or a
\* completion names a habit, that the document does not hold fails with an
\* error and leaves every table as it was.
DanglingDoc(doc) ==
    \/ \E t \in Range(doc.tasks) :
          t.goal_id # NULL /\ t.goal_id \notin {g.id : g \in Range(doc.goals)}
    \/ \E c \in Range(doc.habit_completions) :
          c.habit_id \notin {h.id : h \in Range(doc.habits)}

C23_DanglingImportFails ==
    (IsImport /\ ParseExportData(last.doc) /\ DanglingDoc(last.doc)) =>
        /\ ~last.ok /\ last.err # "-"
        /\ db = last.pre

\* C24: every connection that the pool hands to a command enforces foreign
\* keys.
C24_EveryConnectionEnforces == last.op # "init" => last.fk

\* C25: a successful delete_goal(G, "cascade") removes exactly the tasks whose
\* goal_id = G: every other task, a sub-task of a removed task included, is
\* still there afterwards.
C25_CascadeRemovesExactly ==
    (IsDeleteGoal /\ last.strategy = "cascade" /\ last.ok) =>
        db.tasks = {t \in last.pre.tasks : t.goal_id # last.id}

\* C26: import_all_data succeeds (no storage fault being injected) for every
\* document that parses, has unique ids within each section and unique
\* (habit_id, date) pairs and holds every goal and habit that its tasks and
\* completions name, documents with tasks included.
UniqueIds(seq) == \A i, j \in 1..Len(seq) : seq[i].id = seq[j].id => i = j
WellFormedDoc(doc) ==
    /\ ParseExportData(doc)
    /\ UniqueIds(doc.goals) /\ UniqueIds(doc.tasks)
    /\ UniqueIds(doc.habits) /\ UniqueIds(doc.habit_completions)
    /\ \A i, j \in 1..Len(doc.habit_completions) :
          (/\ doc.habit_completions[i].habit_id = doc.habit_completions[j].habit_id
           /\ doc.habit_completions[i].date = doc.habit_completions[j].date) => i = j
    /\ ~DanglingDoc(doc)

C26_WellFormedImportSucceeds ==
    (IsImport /\ last.fault = "none" /\ WellFormedDoc(last.doc)) => last.ok

\* C27: however many export_all_data calls run at once on a pool of N
\* connections, none of them ends with a connection-acquisition timeout: no
\* export waits for a second connection while it holds one.
C27_ExportsNeverStarve ==
    last.op = "export_all_data" => last.err # "Failed to get database connection"

\* C28: when a partial settings update returns success, every other section
\* that another partial update wrote, with success, while this one was running
\* still holds the value that update gave it.
C28_NoLostSettingsUpdate ==
    (last.op \in {"update_appearance_settings", "update_habit_settings"}
       /\ last.ok /\ last.id \in Updaters) =>
        LET me == inflight.upd[last.id]
            stored == load_settings_from_db(db).val
        IN \A sec \in {"appearance", "habits"} :
              (sec # me.section /\ me.seen[sec] # NULL) => stored[sec] = me.seen[sec]

\* C29: the record that a successful create_habit_completion returns is the
\* row stored for its habit and date after the call, id included.
C29_ReturnedCompletionIsStored ==
    (last.op = "create_habit_completion" /\ last.ok) =>
        {c \in db.habit_completions :
            c.habit_id = last.returned.habit_id /\ c.date = last.returned.date}
          = {last.returned}

====
